---- MODULE Spec2Model ----
(***************************************************************************)
(* A model of src/main.py: the YouTube mind-map page.  The page is a       *)
(* Streamlit script: every interaction re-runs it top to bottom, with      *)
(* st.session_state and the file mind_map.html surviving between runs.     *)
(*                                                                         *)
(* Python values are tagged records, so that None, strings, and parsed     *)
(* JSON can be held by one variable and compared:                          *)
(*   None                      [t |-> "None"]                              *)
(*   a str                     [t |-> "str", s |-> <<characters>>]         *)
(*   a number                  [t |-> "num", n |-> <<characters>>]         *)
(*   a list                    [t |-> "arr", e |-> <<values>>]             *)
(*   a dict                    [t |-> "obj", m |-> <<[k, v] members>>]     *)
(* A text is a sequence of characters.  A run of letters or digits that    *)
(* holds none of the characters the code looks for may be written as one   *)
(* element ("done", "title"): no operation of the code splits such a run.  *)
(***************************************************************************)
EXTENDS Integers, Sequences, FiniteSets, TLC

VARIABLES
    youtube_url,    \* the text_input widget's value (main.py:140)
    summary,        \* st.session_state.summary (main.py:47-48, 164)
    mind_map_data,  \* st.session_state.mind_map_data (main.py:49-50, 173)
    html,           \* the file mind_map.html (main.py:132)
    mm_summary,     \* history: the summary handed to generate_mind_map for mind_map_data
    html_data,      \* history: the structure handed to create_mind_map_visual for html
    calls,          \* the functions the last script run called, in order
    banners,        \* the messages the last script run showed, in order
    inp,            \* what the external services answered in the last script run
    pressed,        \* whether the last script run was a press of the button
    arg,            \* the argument of the function under test (function specifications)
    ret             \* its result

vars == <<youtube_url, summary, mind_map_data, html, mm_summary, html_data,
          calls, banners, inp, pressed, arg, ret>>

pageVars == <<youtube_url, summary, mind_map_data, html, mm_summary, html_data,
              calls, banners, inp, pressed>>

-----------------------------------------------------------------------------
(* Python values *)

None == [t |-> "None"]

Str(chars) == [t |-> "str", s |-> chars]

Num(chars) == [t |-> "num", n |-> chars]

Arr(elems) == [t |-> "arr", e |-> elems]

Obj(members) == [t |-> "obj", m |-> members]

\* bool(v) of Python: None, "", [] and {} are falsy
Truthy(v) ==
    CASE v.t = "None" -> FALSE
      [] v.t = "str" -> v.s # <<>>
      [] v.t = "arr" -> v.e # <<>>
      [] v.t = "obj" -> v.m # <<>>
      [] OTHER -> TRUE

NotCalled == [t |-> "NotCalled"]

RECURSIVE Flatten(_)
\* the text made of the given pieces, one after the other
Flatten(pieces) ==
    IF pieces = <<>> THEN <<>> ELSE Head(pieces) \o Flatten(Tail(pieces))

\* all sequences over S of length at most n
SeqsUpTo(S, n) == UNION {[1..k -> S] : k \in 0..n}

-----------------------------------------------------------------------------
(* get_video_id, main.py:55-58 *)

Digits == {"0", "1", "2", "3", "4", "5", "6", "7", "8", "9"}

Upper == {"A", "B", "C", "D", "E", "F", "G", "H", "I", "J", "K", "L", "M",
          "N", "O", "P", "Q", "R", "S", "T", "U", "V", "W", "X", "Y", "Z"}

Lower == {"a", "b", "c", "d", "e", "f", "g", "h", "i", "j", "k", "l", "m",
          "n", "o", "p", "q", "r", "s", "t", "u", "v", "w", "x", "y", "z"}

\* the character class [0-9A-Za-z_-]
IdChars == Digits \cup Upper \cup Lower \cup {"_", "-"}

\* the {11} of the pattern
IdLen == 11

\* [0-9A-Za-z_-]{11} matches at position g of url
ClassRunAt(url, g) ==
    /\ g >= 1
    /\ g + IdLen - 1 <= Len(url)
    /\ \A k \in 0..(IdLen - 1) : url[g + k] \in IdChars

\* where the group starts when the pattern matches at position i: 0 if it does not.
\* The alternatives of (?:v=|\/) are tried in order; the trailing .* always matches.
GroupStartAt(url, i) ==
    IF i + 1 <= Len(url) /\ url[i] = "v" /\ url[i + 1] = "=" /\ ClassRunAt(url, i + 2)
    THEN i + 2
    ELSE IF url[i] = "/" /\ ClassRunAt(url, i + 1)
    THEN i + 1
    ELSE 0

RECURSIVE SearchFromRight(_, _)
SearchFromRight(url, i) ==
    IF i < 1 THEN None
    ELSE IF GroupStartAt(url, i) # 0
    THEN Str(SubSeq(url, GroupStartAt(url, i), GroupStartAt(url, i) + IdLen - 1))
    ELSE SearchFromRight(url, i - 1)

RECURSIVE SearchFrom(_, _)
\* re.search: the match at the leftmost position, group(1) of it
SearchFrom(url, i) ==
    IF i > Len(url) THEN None
    ELSE IF GroupStartAt(url, i) # 0
    THEN Str(SubSeq(url, GroupStartAt(url, i), GroupStartAt(url, i) + IdLen - 1))
    ELSE SearchFrom(url, i + 1)

\* a plausible slip: the last match instead of the first
get_video_id_last(url) == SearchFromRight(url, Len(url))

get_video_id(url) == SearchFrom(url, 1)

-----------------------------------------------------------------------------
(* extract_transcript, main.py:63-71 *)

RECURSIVE JoinNoSep(_)
JoinNoSep(items) ==
    IF items = <<>> THEN <<>> ELSE Head(items) \o JoinNoSep(Tail(items))

RECURSIVE Join(_)
\* " ".join(items)
Join(items) ==
    IF items = <<>> THEN <<>>
    ELSE IF Len(items) = 1 THEN Head(items)
    ELSE Head(items) \o <<" ">> \o Join(Tail(items))

\* [item["text"] for item in transcript_data]
TextsOf(data) == [k \in 1..Len(data) |-> data[k].text]

\* a plausible slip: the fragments run together
extract_transcript_nosep(svc) ==
    IF svc.o = "raised"
    THEN [ret |-> None, banners |-> <<"error: Error fetching transcript">>]
    ELSE [ret |-> Str(JoinNoSep(TextsOf(svc.data))), banners |-> <<>>]

\* svc is what YouTubeTranscriptApi.get_transcript did: raised, or returned data
extract_transcript(svc) ==
    IF svc.o = "raised"
    THEN [ret |-> None, banners |-> <<"error: Error fetching transcript">>]
    ELSE [ret |-> Str(Join(TextsOf(svc.data))), banners |-> <<>>]

-----------------------------------------------------------------------------
(* json.loads, as main.py:92 uses it.  The characters of a text that matter *)
(* to it: the six structural characters, the double quote, the space, the   *)
(* digit 1; every other element is a run of letters.                        *)

Fail == [ok |-> FALSE, v |-> None, n |-> 0]

Parsed(value, next) == [ok |-> TRUE, v |-> value, n |-> next]

RECURSIVE SkipWs(_, _)
\* the index of the first character at or after i that is not whitespace
SkipWs(t, i) == IF i <= Len(t) /\ t[i] = " " THEN SkipWs(t, i + 1) ELSE i

\* the character at i, or "" past the end (s[i:i+1] of Python)
At(t, i) == IF i >= 1 /\ i <= Len(t) THEN t[i] ELSE ""

RECURSIVE IndexFrom(_, _, _)
\* the first index at or after i holding c, 0 if there is none
IndexFrom(t, c, i) ==
    IF i > Len(t) THEN 0 ELSE IF t[i] = c THEN i ELSE IndexFrom(t, c, i + 1)

RECURSIVE IndexBefore(_, _, _)
\* the last index at or before i holding c, 0 if there is none
IndexBefore(t, c, i) ==
    IF i < 1 THEN 0 ELSE IF t[i] = c THEN i ELSE IndexBefore(t, c, i - 1)

\* scanstring: t[i] is the opening quote; the string runs to the next quote
ParseString(t, i) ==
    LET j == IndexFrom(t, "\"", i + 1)
    IN  IF j = 0 THEN Fail ELSE Parsed(Str(SubSeq(t, i + 1, j - 1)), j + 1)

RECURSIVE DigitsEnd(_, _)
\* the index after the run of digits that starts at i
DigitsEnd(t, i) == IF At(t, i) = "1" THEN DigitsEnd(t, i + 1) ELSE i

\* dict[key] = value: a key already there keeps its place and takes the new value
Put(members, key, value) ==
    IF \E k \in 1..Len(members) : members[k].k = key
    THEN [k \in 1..Len(members) |->
            IF members[k].k = key THEN [k |-> key, v |-> value] ELSE members[k]]
    ELSE Append(members, [k |-> key, v |-> value])

RECURSIVE ParseValue(_, _)
RECURSIVE ParseMembers(_, _, _)
RECURSIVE ParseElements(_, _, _)

\* JSONObject's loop: i is at the opening quote of a key, acc the members so far
ParseMembers(t, i, acc) ==
    LET key == ParseString(t, i)
        c == IF key.ok THEN SkipWs(t, key.n) ELSE 0
        val == IF key.ok /\ At(t, c) = ":" THEN ParseValue(t, SkipWs(t, c + 1)) ELSE Fail
        e == IF val.ok THEN SkipWs(t, val.n) ELSE 0
        q == SkipWs(t, e + 1)
    IN  IF ~val.ok THEN Fail
        ELSE IF At(t, e) = "}" THEN Parsed(Obj(Put(acc, key.v.s, val.v)), e + 1)
        ELSE IF At(t, e) = "," /\ At(t, q) = "\""
        THEN ParseMembers(t, q, Put(acc, key.v.s, val.v))
        ELSE Fail

\* JSONArray's loop: i is at the start of an element, acc the elements so far
ParseElements(t, i, acc) ==
    LET val == ParseValue(t, i)
        e == IF val.ok THEN SkipWs(t, val.n) ELSE 0
    IN  IF ~val.ok THEN Fail
        ELSE IF At(t, e) = "]" THEN Parsed(Arr(Append(acc, val.v)), e + 1)
        ELSE IF At(t, e) = "," THEN ParseElements(t, SkipWs(t, e + 1), Append(acc, val.v))
        ELSE Fail

\* scan_once: the value that starts at i
ParseValue(t, i) ==
    LET c == At(t, i)
        j == SkipWs(t, i + 1)
    IN  CASE c = "\"" -> ParseString(t, i)
          [] c = "{" -> IF At(t, j) = "}" THEN Parsed(Obj(<<>>), j + 1)
                        ELSE IF At(t, j) = "\"" THEN ParseMembers(t, j, <<>>)
                        ELSE Fail
          [] c = "[" -> IF At(t, j) = "]" THEN Parsed(Arr(<<>>), j + 1)
                        ELSE ParseElements(t, j, <<>>)
          [] c = "1" -> Parsed(Num(SubSeq(t, i, DigitsEnd(t, i) - 1)), DigitsEnd(t, i))
          [] OTHER -> Fail

\* json.loads(t): one value, whitespace around it, nothing else; ok is FALSE
\* where json.loads raises
json_loads(t) ==
    LET val == ParseValue(t, SkipWs(t, 1))
    IN  IF val.ok /\ SkipWs(t, val.n) = Len(t) + 1 THEN val ELSE Fail

-----------------------------------------------------------------------------
(* extract_json, main.py:85-97 *)

\* str.find: 0 stands for Python's -1, and index i for Python's i - 1
find(t, c) == IndexFrom(t, c, 1)

\* str.rfind
rfind(t, c) == IndexBefore(t, c, Len(t))

\* what extract_json does once the two indices are known
ExtractBetween(t, start_index, end_index) ==
    LET js == IF start_index # 0 /\ end_index # 0
              THEN json_loads(SubSeq(t, start_index, end_index))
              ELSE Fail
    IN  IF js.ok
        THEN [ret |-> js.v, banners |-> <<>>]
        ELSE [ret |-> None, banners |-> <<"error: Error parsing mind map">>]

\* a plausible slip: the slice stops before the closing brace
extract_json_open_slice(response_text) ==
    ExtractBetween(response_text, find(response_text, "{"), rfind(response_text, "}") - 1)

\* a plausible slip: the first closing brace instead of the last
extract_json_first_close(response_text) ==
    ExtractBetween(response_text, find(response_text, "{"), find(response_text, "}"))

extract_json(response_text) ==
    ExtractBetween(response_text, find(response_text, "{"), rfind(response_text, "}"))

-----------------------------------------------------------------------------
(* generate_summary, main.py:76-80, and generate_mind_map, main.py:102-110. *)
(* api is what model.generate_content answered: [o |-> "ok", text |-> str]. *)
(* A call that raises never reaches these lines; the page handles it.       *)

SummaryWarning == Str(<<"Error generating summary!">>)

generate_summary(api) == IF Truthy(api.text) THEN api.text ELSE SummaryWarning

generate_mind_map(api) ==
    IF Truthy(api.text)
    THEN extract_json(api.text.s)
    ELSE [ret |-> None, banners |-> <<"error: Empty response from the Gemini API.">>]

-----------------------------------------------------------------------------
(* create_mind_map_visual, main.py:115-132, with pyvis.Network (directed).  *)
(* net is [raised, nodes, edges]: raised once a statement has raised.       *)

EmptyNet == [raised |-> FALSE, nodes |-> <<>>, edges |-> <<>>]

Raised == [raised |-> TRUE, nodes |-> <<>>, edges |-> <<>>]

NodeIds(net) == {net.nodes[k].id : k \in 1..Len(net.nodes)}

\* a plausible slip: a node per entry, whatever its label
add_node_always(net, n_id, color) ==
    IF net.raised \/ n_id.t \notin {"str", "num"} THEN Raised
    ELSE [net EXCEPT !.nodes = Append(@, [id |-> n_id, color |-> color])]

\* Network.add_node: the id must be a str or an int; an id already there is kept
\* as it is
add_node(net, n_id, color) ==
    IF net.raised \/ n_id.t \notin {"str", "num"} THEN Raised
    ELSE IF n_id \in NodeIds(net) THEN net
    ELSE [net EXCEPT !.nodes = Append(@, [id |-> n_id, color |-> color])]

\* Network.add_edge of a directed network: both ends must be nodes; every call
\* appends an edge
add_edge(net, source, to, color) ==
    IF net.raised \/ source \notin NodeIds(net) \/ to \notin NodeIds(net) THEN Raised
    ELSE [net EXCEPT !.edges = Append(@, [from |-> source, to |-> to, color |-> color])]

HasKey(v, key) == v.t = "obj" /\ \E k \in 1..Len(v.m) : v.m[k].k = key

\* v[key]: only called where HasKey(v, key)
Get(v, key) == v.m[CHOOSE k \in 1..Len(v.m) : v.m[k].k = key].v

\* iter(v): the elements of a list, the keys of a dict, the characters of a str;
\* a number is not iterable
Iterable(v) == v.t \in {"arr", "obj", "str"}

Items(v) ==
    CASE v.t = "arr" -> v.e
      [] v.t = "obj" -> [k \in 1..Len(v.m) |-> Str(v.m[k].k)]
      [] v.t = "str" -> [k \in 1..Len(v.s) |-> Str(<<v.s[k]>>)]
      [] OTHER -> <<>>

RECURSIVE AddChildren(_, _, _)
\* main.py:127-129, for the children from the first of the given ones on
AddChildren(net, subtopic_name, children) ==
    IF net.raised \/ children = <<>> THEN net
    ELSE LET child == Head(children)
         IN  IF ~HasKey(child, <<"name">>) THEN Raised
             ELSE AddChildren(
                    add_edge(add_node(net, Get(child, <<"name">>), "lightblue"),
                             subtopic_name, Get(child, <<"name">>), "purple"),
                    subtopic_name, Tail(children))

RECURSIVE AddSubtopics(_, _, _)
\* main.py:123-129, for the subtopics from the first of the given ones on
AddSubtopics(net, root_name, subtopics) ==
    IF net.raised \/ subtopics = <<>> THEN net
    ELSE LET subtopic == Head(subtopics)
             withNode == add_edge(add_node(net, Get(subtopic, <<"name">>), "green"),
                                  root_name, Get(subtopic, <<"name">>), "blue")
         IN  IF ~HasKey(subtopic, <<"name">>) THEN Raised
             ELSE IF withNode.raised \/ ~HasKey(subtopic, <<"children">>) THEN Raised
             ELSE IF ~Iterable(Get(subtopic, <<"children">>)) THEN Raised
             ELSE AddSubtopics(
                    AddChildren(withNode, Get(subtopic, <<"name">>),
                                Items(Get(subtopic, <<"children">>))),
                    root_name, Tail(subtopics))

\* the network at net.save_graph, or raised if a statement before it raised
create_mind_map_visual(data) ==
    IF ~HasKey(data, <<"title">>) THEN Raised
    ELSE LET root_name == Get(data, <<"title">>)
             withRoot == add_node(EmptyNet, root_name, "orange")
         IN  IF withRoot.raised \/ ~HasKey(data, <<"nodes">>) THEN Raised
             ELSE IF ~Iterable(Get(data, <<"nodes">>)) THEN Raised
             ELSE AddSubtopics(withRoot, root_name, Items(Get(data, <<"nodes">>)))

-----------------------------------------------------------------------------
(* The page, main.py:137-188.  One script run is one step.  run is what the *)
(* run has done so far: the session state and the file as it leaves them,   *)
(* the calls it made and the banners it showed.                             *)

NoFile == [t |-> "absent", nodes |-> <<>>, edges |-> <<>>]

File(net) == [t |-> "file", nodes |-> net.nodes, edges |-> net.edges]

\* an exception no handler catches: Streamlit shows it and the run ends there
Uncaught == "exception: uncaught"

Note(run, call) == [run EXCEPT !.calls = Append(@, call)]

Show(run, msgs) == [run EXCEPT !.banners = @ \o msgs]

\* the run has called f
Called(run, f) == \E k \in 1..Len(run.calls) : run.calls[k] = f

\* what a service that was not called answered
UnusedSvc == [o |-> "unused", data |-> <<>>]

UnusedApi == [o |-> "unused", text |-> Str(<<>>)]

\* a plausible slip: the structure is stored before it is tested
MindMapBranch_store_first(run, summ, g) ==
    IF Truthy(g.ret)
    THEN LET stored == [Note(run, "create_mind_map_visual") EXCEPT
                          !.mind_map_data = g.ret, !.mm_summary = summ]
             net == create_mind_map_visual(g.ret)
         IN  IF net.raised THEN Show(stored, <<Uncaught>>)
             ELSE Show([stored EXCEPT !.html = File(net), !.html_data = g.ret],
                       <<"success: Mind map generated successfully!">>)
    ELSE Show([run EXCEPT !.mind_map_data = g.ret, !.mm_summary = summ],
              <<"error: Error generating mind map.">>)

\* main.py:171-181: g is what generate_mind_map returned
MindMapBranch(run, summ, g) ==
    IF Truthy(g.ret)
    THEN LET stored == [Note(run, "create_mind_map_visual") EXCEPT
                          !.mind_map_data = g.ret, !.mm_summary = summ]
             net == create_mind_map_visual(g.ret)
         IN  IF net.raised THEN Show(stored, <<Uncaught>>)
             ELSE Show([stored EXCEPT !.html = File(net), !.html_data = g.ret],
                       <<"success: Mind map generated successfully!">>)
    ELSE Show(run, <<"error: Error generating mind map.">>)

\* main.py:163-183: summ is what generate_summary returned
SummaryBranch(run, summ, mapi) ==
    IF Truthy(summ)
    THEN LET stored == [Note(run, "generate_mind_map") EXCEPT !.summary = summ]
         IN  IF mapi.o = "raised" THEN Show(stored, <<Uncaught>>)
             ELSE MindMapBranch(Show(stored, generate_mind_map(mapi).banners),
                                summ, generate_mind_map(mapi))
    ELSE Show(run, <<"error: Error generating summary.">>)

\* a plausible slip: the summary is asked for whatever the transcript
TranscriptBranch_noguard(run, svc, sapi, mapi) ==
    LET fetched == Show(Note(run, "extract_transcript"), extract_transcript(svc).banners)
    IN  IF sapi.o = "raised"
        THEN Show(Note(fetched, "generate_summary"), <<Uncaught>>)
        ELSE SummaryBranch(Note(fetched, "generate_summary"), generate_summary(sapi), mapi)

\* main.py:158-161: there is no else to "if transcript"
TranscriptBranch(run, svc, sapi, mapi) ==
    LET fetched == Show(Note(run, "extract_transcript"), extract_transcript(svc).banners)
    IN  IF Truthy(extract_transcript(svc).ret)
        THEN IF sapi.o = "raised"
             THEN Show(Note(fetched, "generate_summary"), <<Uncaught>>)
             ELSE SummaryBranch(Note(fetched, "generate_summary"),
                                generate_summary(sapi), mapi)
        ELSE fetched

\* main.py:143-148
Thumbnail(run, url) ==
    IF url = <<>> THEN run
    ELSE IF Truthy(get_video_id(url)) THEN Note(run, "get_video_id")
    ELSE Show(Note(run, "get_video_id"), <<"error: Invalid YouTube URL!">>)

\* main.py:151-183
ButtonHandler(run, url, svc, sapi, mapi) ==
    IF url = <<>> THEN Show(run, <<"warning: Please enter a YouTube URL.">>)
    ELSE IF ~Truthy(get_video_id(url)) THEN Show(run, <<"error: Invalid YouTube URL.">>)
    ELSE TranscriptBranch(run, svc, sapi, mapi)

\* the session state and the file at the start of a run
Session ==
    [summary |-> summary, mind_map_data |-> mind_map_data, html |-> html,
     mm_summary |-> mm_summary, html_data |-> html_data,
     calls |-> <<>>, banners |-> <<>>]

\* a script run with the button pressed
ButtonRun(run, url, svc, sapi, mapi) ==
    ButtonHandler(Thumbnail(run, url), url, svc, sapi, mapi)

Leave(run) ==
    /\ summary' = run.summary
    /\ mind_map_data' = run.mind_map_data
    /\ html' = run.html
    /\ mm_summary' = run.mm_summary
    /\ html_data' = run.html_data
    /\ calls' = run.calls
    /\ banners' = run.banners

-----------------------------------------------------------------------------
(* Texts and structures the services may answer with *)

Quote == "\""

\* the string literal "w"
Lit(w) == <<Quote>> \o w \o <<Quote>>

RECURSIVE Dumps(_)
RECURSIVE DumpsAll(_, _)
\* the compact JSON text of a value: a way to write the texts below
Dumps(v) ==
    CASE v.t = "str" -> Lit(v.s)
      [] v.t = "num" -> v.n
      [] v.t = "arr" ->
            <<"[">> \o DumpsAll([k \in 1..Len(v.e) |-> Dumps(v.e[k])], 1) \o <<"]">>
      [] v.t = "obj" ->
            <<"{">> \o DumpsAll([k \in 1..Len(v.m) |->
                                   Lit(v.m[k].k) \o <<":">> \o Dumps(v.m[k].v)], 1)
                    \o <<"}">>
      [] OTHER -> <<"null">>

\* the texts from the k-th on, with commas between them
DumpsAll(texts, k) ==
    IF k > Len(texts) THEN <<>>
    ELSE IF k = Len(texts) THEN texts[k]
    ELSE texts[k] \o <<",">> \o DumpsAll(texts, k + 1)

Named(name) == Obj(<<[k |-> <<"name">>, v |-> Str(<<name>>)]>>)

\* a subtopic of the prompt's format (main.py:38): a name and its children's names
Subtopic(name, kids) ==
    Obj(<<[k |-> <<"name">>, v |-> Str(<<name>>)],
          [k |-> <<"children">>, v |-> Arr([i \in 1..Len(kids) |-> Named(kids[i])])]>>)

\* a mind map of the prompt's format (main.py:35-41); subs are <<name, kids>> pairs
MindMap(title, subs) ==
    Obj(<<[k |-> <<"title">>, v |-> Str(<<title>>)],
          [k |-> <<"nodes">>,
           v |-> Arr([i \in 1..Len(subs) |-> Subtopic(subs[i][1], subs[i][2])])]>>)

CatsMap == MindMap("Cats", << <<"Biology", <<"Mammal">>>> >>)

TwoChildrenMap == MindMap("Main Topic", << <<"Subtopic 1", <<"Key Point 1", "Key Point 2">>>> >>)

SharedChildMap ==
    MindMap("Main Topic", << <<"Subtopic 1", <<"Overview">>>>, <<"Subtopic 2", <<"Overview">>>> >>)

\* {"a":1}
SmallObject == Obj(<<[k |-> <<"a">>, v |-> Num(<<"1">>)]>>)

\* {"a":1} done {oops
TrailingOpenText == Dumps(SmallObject) \o <<" ", "done", " ", "{", "oops">>

\* {"a":1} done {oops}
TrailingCloseText == Dumps(SmallObject) \o <<" ", "done", " ", "{", "oops", "}">>

\* prose around the one object, no brace in it
ProseAroundText == <<"Here", " ">> \o Dumps(TwoChildrenMap) \o <<" ", "done">>

\* a response cut off before any closing brace
TruncatedText == <<"{">> \o Lit(<<"title">>) \o <<":">> \o Lit(<<"Cats">>) \o <<",">>

\* a well-formed object with no "nodes"
NoNodesText == Dumps(Obj(<<[k |-> <<"title">>, v |-> Str(<<"Cats">>)]>>))

\* the responses of the model at the mind-map stage: well-formed maps, no JSON at
\* all, the empty object, the two trailing-text cases, an object with no "nodes"
MindMapTexts ==
    {Dumps(CatsMap), Dumps(SharedChildMap), <<"done">>, <<"{", "}">>,
     TrailingOpenText, TrailingCloseText, NoNodesText}

Id1 == <<"d", "Q", "w", "4", "w", "9", "W", "g", "X", "c", "Q">>

Id2 == <<"a", "b", "c", "_", "D", "E", "F", "-", "1", "2", "3">>

\* one character short of an id
Short == <<"0", "1", "2", "3", "4", "5", "6", "7", "8", "9">>

\* https://youtu.be/dQw4w9WgXcQ
ShortUrl ==
    <<"h", "t", "t", "p", "s", ":", "/", "/", "y", "o", "u", "t", "u", ".", "b", "e", "/">>
    \o Id1

\* https://www.youtube.com/watch?v=abc_DEF-123
WatchUrl ==
    <<"h", "t", "t", "p", "s", ":", "/", "/", "w", "w", "w", ".", "y", "o", "u", "t", "u",
      "b", "e", ".", "c", "o", "m", "/", "w", "a", "t", "c", "h", "?", "v", "=">>
    \o Id2

\* https://a.b
NoVideoUrl == <<"h", "t", "t", "p", "s", ":", "/", "/", "a", ".", "b">>

\* the URLs the user types: none, not a video URL, a video URL
Urls == {<<>>, NoVideoUrl, ShortUrl}

Fragment(text) == [text |-> text, start |-> 0, duration |-> 1]

SvcOutcomes ==
    {[o |-> "raised", data |-> <<>>],
     [o |-> "ok", data |-> <<>>],
     [o |-> "ok", data |-> <<Fragment(<<"Cats are mammals.">>)>>],
     [o |-> "ok", data |-> <<Fragment(<<"Cats are mammals.">>),
                             Fragment(<<"Cats are popular pets.">>)>>]}

SummaryApis ==
    {[o |-> "raised", text |-> Str(<<>>)],
     [o |-> "ok", text |-> Str(<<>>)],
     [o |-> "ok", text |-> Str(<<"- Cats are mammals">>)],
     [o |-> "ok", text |-> Str(<<"- Cats are popular pets">>)]}

MindMapApis ==
    {[o |-> "raised", text |-> Str(<<>>)], [o |-> "ok", text |-> Str(<<>>)]}
    \cup {[o |-> "ok", text |-> Str(t)] : t \in MindMapTexts}

-----------------------------------------------------------------------------
(* The page's steps *)

PageInit ==
    /\ youtube_url = <<>>
    /\ summary = Str(<<>>)
    /\ mind_map_data = None
    /\ html = NoFile
    /\ mm_summary = None
    /\ html_data = None
    /\ calls = <<>>
    /\ banners = <<>>
    /\ inp = [svc |-> UnusedSvc, sapi |-> UnusedApi, mapi |-> UnusedApi]
    /\ pressed = FALSE

Init == PageInit /\ arg = NotCalled /\ ret = NotCalled

\* the user changes the URL: a script run without the button
EnterUrl ==
    \E u \in Urls :
    \E run \in {Thumbnail(Session, u)} :
        /\ youtube_url' = u
        /\ Leave(run)
        /\ inp' = [svc |-> UnusedSvc, sapi |-> UnusedApi, mapi |-> UnusedApi]
        /\ pressed' = FALSE
        /\ UNCHANGED <<arg, ret>>

\* the answers a service may give in this run: one of its answers if the run calls
\* it, none otherwise
Answers(called, answers, unused) == IF called THEN answers ELSE {unused}

\* the user presses "Generate Friendly Mind Map": a script run with the button.
\* The inner button of main.py:178 is only drawn in that run: pressing it starts a
\* run in which the outer button is not pressed, so main.py:179 is never reached.
\* The saved summary of main.py:186-188 is drawn by every run and changes nothing.
Generate ==
    \E svc \in Answers(Called(
                         ButtonRun(Session, youtube_url, UnusedSvc, UnusedApi, UnusedApi),
                              "extract_transcript"),
                       SvcOutcomes, UnusedSvc) :
    \E sapi \in Answers(Called(
                          ButtonRun(Session, youtube_url, svc, UnusedApi, UnusedApi),
                               "generate_summary"),
                        SummaryApis, UnusedApi) :
    \E mapi \in Answers(Called(
                          ButtonRun(Session, youtube_url, svc, sapi, UnusedApi),
                               "generate_mind_map"),
                        MindMapApis, UnusedApi) :
    \E run \in {ButtonRun(Session, youtube_url, svc, sapi, mapi)} :
        /\ Leave(run)
        /\ inp' = [svc |-> svc, sapi |-> sapi, mapi |-> mapi]
        /\ pressed' = TRUE
        /\ UNCHANGED <<youtube_url, arg, ret>>

Next == EnterUrl \/ Generate

Spec == Init /\ [][Next]_vars

-----------------------------------------------------------------------------
(* The functions on their own: arg is the argument, drawn from a bounded    *)
(* set, ret the result once the function has been called.                   *)

\* the pieces a URL is put together from
UrlPieces == {<<"v", "=">>, <<"/">>, <<"?">>, Id1, Id2, Short}

MaxPieces == 4

UrlInputs == {Flatten(p) : p \in SeqsUpTo(UrlPieces, MaxPieces)} \cup {WatchUrl, ShortUrl, NoVideoUrl}

InitId == PageInit /\ arg \in {Str(u) : u \in UrlInputs} /\ ret = NotCalled

CallGetVideoId ==
    /\ ret = NotCalled
    /\ ret' = get_video_id(arg.s)
    /\ UNCHANGED <<arg, pageVars>>

SpecId == InitId /\ [][CallGetVideoId]_vars

\* the text fields of the fragments
FragmentTexts == {<<>>, <<"a">>, <<"b", "c">>, <<" ">>}

MaxFragments == 3

SvcInputs ==
    {[o |-> "raised", data |-> <<>>]}
    \cup {[o |-> "ok", data |-> [k \in 1..Len(ts) |-> [text |-> ts[k], start |-> k, duration |-> 1]]] :
            ts \in SeqsUpTo(FragmentTexts, MaxFragments)}

InitTranscript == PageInit /\ arg \in SvcInputs /\ ret = NotCalled

CallExtractTranscript ==
    /\ ret = NotCalled
    /\ ret' = extract_transcript(arg)
    /\ UNCHANGED <<arg, pageVars>>

SpecTranscript == InitTranscript /\ [][CallExtractTranscript]_vars

\* the pieces a response text is put together from
TextPieces == {<<"{">>, <<"}">>, Lit(<<"a">>), <<":">>, <<"1">>, <<",">>, <<" ">>}

MaxTextPieces == 5

\* { "a" : "}" } and "{" {"a":1}: whitespace inside, and braces inside string literals
SpacedText == <<"{", " ">> \o Lit(<<"a">>) \o <<" ", ":", " ">> \o Lit(<<"}">>) \o <<" ", "}">>

QuotedBraceText == Lit(<<"{">>) \o <<" ">> \o Dumps(SmallObject)

\* objects with no object inside: at most two members, keys a and b
FlatValues == {Num(<<"1">>), Str(<<"x">>), Arr(<<>>), Arr(<<Num(<<"1">>), Str(<<"b">>)>>)}

FlatObjects ==
    {Obj(<<>>)}
    \cup {Obj(<<[k |-> key, v |-> val]>>) : key \in {<<"a">>, <<"b">>}, val \in FlatValues}
    \cup {Obj(<<[k |-> <<"a">>, v |-> v1], [k |-> <<"b">>, v |-> v2]>>) :
            v1 \in FlatValues, v2 \in FlatValues}

\* prose with no brace in it
Proses == {<<>>, <<"Here", " ">>, <<" ", "done">>}

\* each such object between two proses: the text, and the object it holds
RoundTrips ==
    {<<pre \o Dumps(v) \o post, v>> : pre \in Proses, v \in FlatObjects, post \in Proses}

TextInputs ==
    {Flatten(p) : p \in SeqsUpTo(TextPieces, MaxTextPieces)}
    \cup {rt[1] : rt \in RoundTrips}
    \cup MindMapTexts
    \cup {ProseAroundText, TruncatedText, SpacedText, QuotedBraceText, Dumps(TwoChildrenMap)}

InitJson == PageInit /\ arg \in {Str(t) : t \in TextInputs} /\ ret = NotCalled

CallExtractJson ==
    /\ ret = NotCalled
    /\ ret' = extract_json(arg.s)
    /\ UNCHANGED <<arg, pageVars>>

SpecJson == InitJson /\ [][CallExtractJson]_vars

Titles == {"T", "A"}

SubtopicNames == {"A", "B"}

ChildNames == {"A", "C"}

MaxSubtopics == 2

MaxChildren == 2

MapInputs ==
    {MindMap(title, subs) :
        title \in Titles,
        subs \in SeqsUpTo(SubtopicNames \X SeqsUpTo(ChildNames, MaxChildren), MaxSubtopics)}
    \cup {CatsMap, TwoChildrenMap, SharedChildMap}

InitGraph == PageInit /\ arg \in MapInputs /\ ret = NotCalled

CallCreateMindMapVisual ==
    /\ ret = NotCalled
    /\ ret' = create_mind_map_visual(arg)
    /\ UNCHANGED <<arg, pageVars>>

SpecGraph == InitGraph /\ [][CallCreateMindMapVisual]_vars

-----------------------------------------------------------------------------
(* get_video_id *)

\* an 11-character token of the class starts at g, right after "v=" or "/"
TokenAt(url, g) ==
    /\ g + IdLen - 1 <= Len(url)
    /\ \A k \in g..(g + IdLen - 1) : url[k] \in IdChars
    /\ \/ g >= 2 /\ url[g - 1] = "/"
       \/ g >= 3 /\ url[g - 2] = "v" /\ url[g - 1] = "="

TokenStarts(url) == {g \in 1..Len(url) : TokenAt(url, g)}

Least(S) == CHOOSE x \in S : \A y \in S : x <= y

Greatest(S) == CHOOSE x \in S : \A y \in S : x >= y

\* C6: get_video_id returns the leftmost 11-character token of [0-9A-Za-z_-] that
\* comes right after "v=" or "/", and None for a string that holds no such token.
C6_LeftmostToken ==
    ret # NotCalled =>
        IF TokenStarts(arg.s) = {}
        THEN ret = None
        ELSE ret = Str(SubSeq(arg.s, Least(TokenStarts(arg.s)),
                              Least(TokenStarts(arg.s)) + IdLen - 1))

\* two tokens in one string: the first is returned
C6_Witness ==
    /\ arg = Str(<<"/">> \o Id2 \o <<"v", "=">> \o Id1)
    /\ ret = Str(Id2)

-----------------------------------------------------------------------------
(* extract_transcript *)

RECURSIVE Offset(_, _)
\* how many characters come before the k-th text in the joined string
Offset(data, k) == IF k <= 1 THEN 0 ELSE Offset(data, k - 1) + Len(data[k - 1].text) + 1

\* C7: extract_transcript returns the text fields in input order with one space
\* between neighbours; the empty string, not None, for no records; None with an
\* error message when the service raises.
C7_SpaceJoined ==
    ret # NotCalled =>
        IF arg.o = "raised"
        THEN ret.ret = None /\ ret.banners # <<>>
        ELSE /\ ret.ret.t = "str"
             /\ ret.banners = <<>>
             /\ Len(arg.data) = 0 => ret.ret.s = <<>>
             /\ Len(arg.data) > 0 =>
                    Len(ret.ret.s) = Offset(arg.data, Len(arg.data))
                                     + Len(arg.data[Len(arg.data)].text)
             /\ \A k \in 1..Len(arg.data) :
                    /\ SubSeq(ret.ret.s, Offset(arg.data, k) + 1,
                              Offset(arg.data, k) + Len(arg.data[k].text)) = arg.data[k].text
                    /\ k < Len(arg.data) =>
                           ret.ret.s[Offset(arg.data, k) + Len(arg.data[k].text) + 1] = " "

C7_Witness ==
    /\ ret # NotCalled
    /\ arg.o = "ok"
    /\ TextsOf(arg.data) = << <<"a">>, <<>>, <<"b", "c">> >>
    /\ ret.ret = Str(<<"a", " ", " ", "b", "c">>)

-----------------------------------------------------------------------------
(* extract_json *)

Positions(t, c) == {i \in 1..Len(t) : t[i] = c}

\* the text from the first "{" to the last "}", both included; none if either is
\* missing, empty if the last "}" comes before the first "{"
HasSpan(t) == Positions(t, "{") # {} /\ Positions(t, "}") # {}

Span(t) == SubSeq(t, Least(Positions(t, "{")), Greatest(Positions(t, "}")))

\* C3: the result of extract_json is decided by the first "{" and the last "}": the
\* parsed structure if the text between them, both included, is valid JSON; None
\* with an error message in every other case.  A text holding one object with no
\* object inside and no other brace parses to that object.
C3_FirstToLast ==
    ret # NotCalled =>
        /\ IF HasSpan(arg.s) /\ json_loads(Span(arg.s)).ok
           THEN ret.ret = json_loads(Span(arg.s)).v /\ ret.banners = <<>>
           ELSE ret.ret = None /\ ret.banners # <<>>
        /\ \A rt \in RoundTrips : arg.s = rt[1] => ret.ret = rt[2]

C3_Witness ==
    /\ ret # NotCalled
    /\ arg.s = <<"Here", " ">> \o Dumps(Obj(<<[k |-> <<"a">>, v |-> Num(<<"1">>)],
                                             [k |-> <<"b">>, v |-> Str(<<"x">>)]>>))
                               \o <<" ", "done">>
    /\ ret.ret = Obj(<<[k |-> <<"a">>, v |-> Num(<<"1">>)], [k |-> <<"b">>, v |-> Str(<<"x">>)]>>)

\* the places k where a well-formed object that starts at the first "{" ends,
\* with more text after it
ObjectEnds(t) ==
    {k \in 1..(Len(t) - 1) :
        /\ Positions(t, "{") # {}
        /\ t[k] = "}"
        /\ json_loads(SubSeq(t, Least(Positions(t, "{")), k)).ok}

Trailing(t, k) == SubSeq(t, k + 1, Len(t))

\* C4, as claimed: a well-formed object followed by text that holds a further
\* brace, such as {"a":1} done {oops, gives None.
C4_TrailingBraceGivesNone ==
    ret # NotCalled =>
        \A k \in ObjectEnds(arg.s) :
            (Positions(Trailing(arg.s, k), "{") \cup Positions(Trailing(arg.s, k), "}")) # {}
                => ret.ret = None

\* C4, amended: a well-formed object followed by text that holds a closing brace
\* gives None with an error message; followed by text that holds opening braces
\* only, as in {"a":1} done {oops, it gives the parsed leading object.
C4_TrailingCloseGivesNone ==
    ret # NotCalled =>
        \A k \in ObjectEnds(arg.s) :
            /\ Positions(Trailing(arg.s, k), "}") # {}
                   => ret.ret = None /\ ret.banners # <<>>
            /\ (Positions(Trailing(arg.s, k), "}") = {} /\ Positions(Trailing(arg.s, k), "{") # {})
                   => /\ ret.ret = json_loads(SubSeq(arg.s, Least(Positions(arg.s, "{")), k)).v
                      /\ ret.banners = <<>>

C4_Witness ==
    /\ ret # NotCalled
    /\ arg.s = TrailingOpenText
    /\ ret.ret = SmallObject
    /\ ret.banners = <<>>

-----------------------------------------------------------------------------
(* create_mind_map_visual *)

SubtopicsOf(data) == Get(data, <<"nodes">>).e

ChildrenOf(subtopic) == Get(subtopic, <<"children">>).e

NameOf(v) == Get(v, <<"name">>)

\* the labels of a well-formed map
Labels(data) ==
    {Get(data, <<"title">>)}
    \cup {NameOf(SubtopicsOf(data)[i]) : i \in 1..Len(SubtopicsOf(data))}
    \cup UNION {{NameOf(ChildrenOf(SubtopicsOf(data)[i])[j]) :
                    j \in 1..Len(ChildrenOf(SubtopicsOf(data)[i]))} :
                 i \in 1..Len(SubtopicsOf(data))}

\* the subtopic entries named b
SubtopicEntries(data, b) ==
    {i \in 1..Len(SubtopicsOf(data)) : NameOf(SubtopicsOf(data)[i]) = b}

\* the child entries named b of the subtopic entries named a
ChildEntries(data, a, b) ==
    UNION {{<<i, j>> : j \in {j \in 1..Len(ChildrenOf(SubtopicsOf(data)[i])) :
                                 NameOf(ChildrenOf(SubtopicsOf(data)[i])[j]) = b}} :
             i \in SubtopicEntries(data, a)}

EdgeCount(net, a, b, color) ==
    Cardinality({k \in 1..Len(net.edges) :
                    net.edges[k] = [from |-> a, to |-> b, color |-> color]})

\* C8: the nodes of the graph are the distinct labels of the map, one node each;
\* the edges are one root->subtopic edge per subtopic entry and one
\* subtopic->child edge per child entry, and no other.
C8_LabelsAreNodes ==
    ret # NotCalled =>
        /\ ~ret.raised
        /\ NodeIds(ret) = Labels(arg)
        /\ Len(ret.nodes) = Cardinality(Labels(arg))
        /\ \A a \in Labels(arg), b \in Labels(arg) :
              /\ EdgeCount(ret, a, b, "blue") =
                    IF a = Get(arg, <<"title">>)
                    THEN Cardinality(SubtopicEntries(arg, b)) ELSE 0
              /\ EdgeCount(ret, a, b, "purple") = Cardinality(ChildEntries(arg, a, b))
        /\ \A k \in 1..Len(ret.edges) : ret.edges[k].color \in {"blue", "purple"}
        /\ arg = TwoChildrenMap =>
              /\ Len(ret.nodes) = 4
              /\ Cardinality({k \in 1..Len(ret.nodes) : ret.nodes[k].color = "orange"}) = 1
              /\ Cardinality({k \in 1..Len(ret.nodes) : ret.nodes[k].color = "green"}) = 1
              /\ Cardinality({k \in 1..Len(ret.nodes) : ret.nodes[k].color = "lightblue"}) = 2
              /\ Cardinality({k \in 1..Len(ret.edges) : ret.edges[k].color = "blue"}) = 1
              /\ Cardinality({k \in 1..Len(ret.edges) : ret.edges[k].color = "purple"}) = 2

\* two subtopics share the child name "Overview": one leaf, two edges into it
C8_Witness ==
    /\ ret # NotCalled
    /\ arg = SharedChildMap
    /\ Cardinality({k \in 1..Len(ret.nodes) : ret.nodes[k].id = Str(<<"Overview">>)}) = 1
    /\ Cardinality({k \in 1..Len(ret.edges) : ret.edges[k].to = Str(<<"Overview">>)}) = 2

-----------------------------------------------------------------------------
(* The page *)

\* the last run called f
CalledNow(f) == \E k \in 1..Len(calls) : calls[k] = f

Pipeline ==
    <<"get_video_id", "extract_transcript", "generate_summary", "generate_mind_map",
      "create_mind_map_visual">>

\* the last run showed a banner of the kind: its text starts with the kind
Success == \E k \in 1..Len(banners) : banners[k] = "success: Mind map generated successfully!"

\* C5: a run calls the stages in pipeline order, each at most once; after a None
\* from get_video_id no transcript is fetched, after a None from extract_transcript
\* no summary is asked for, and create_mind_map_visual is called only in a run in
\* which every earlier stage returned something other than None.
C5_StagesInOrder ==
    /\ \E n \in 0..Len(Pipeline) : calls = SubSeq(Pipeline, 1, n)
    /\ (youtube_url # <<>> /\ get_video_id(youtube_url) = None)
           => ~CalledNow("extract_transcript")
    /\ (CalledNow("extract_transcript") /\ extract_transcript(inp.svc).ret = None)
           => ~CalledNow("generate_summary")
    /\ ~pressed => ~CalledNow("extract_transcript")
    /\ CalledNow("create_mind_map_visual") =>
           /\ get_video_id(youtube_url) # None
           /\ extract_transcript(inp.svc).ret # None
           /\ inp.sapi.o = "ok" /\ generate_summary(inp.sapi) # None
           /\ inp.mapi.o = "ok" /\ generate_mind_map(inp.mapi).ret # None

\* the transcript service raised, and the run stopped there
C5_Witness ==
    /\ pressed
    /\ inp.svc.o = "raised"
    /\ calls = <<"get_video_id", "extract_transcript">>

\* the model answered the summary request with an empty text
EmptySummaryResponse == inp.sapi.o = "ok" /\ ~Truthy(inp.sapi.text)

\* the model answered the mind-map request with an empty text
EmptyMindMapResponse == inp.mapi.o = "ok" /\ ~Truthy(inp.mapi.text)

\* C1: after an empty response at the summary stage the run reports an error,
\* calls neither generate_mind_map nor create_mind_map_visual and stores nothing
\* in the session state; after an empty response at the mind-map stage it reports
\* an error and does not call create_mind_map_visual.
C1_EmptyResponseHalts ==
    [][/\ (pressed' /\ EmptySummaryResponse') =>
            /\ banners' # <<>>
            /\ ~CalledNow("generate_mind_map")'
            /\ ~CalledNow("create_mind_map_visual")'
            /\ summary' = summary
            /\ mind_map_data' = mind_map_data
       /\ (pressed' /\ EmptyMindMapResponse') =>
            /\ banners' # <<>>
            /\ ~CalledNow("create_mind_map_visual")']_vars

\* C2, as claimed: a press that does not end with a mind map leaves the summary,
\* the mind-map structure and the file as they were.
C2_FailureLeavesAll ==
    [][(pressed' /\ ~Success') =>
            /\ summary' = summary
            /\ mind_map_data' = mind_map_data
            /\ html' = html]_vars

\* C2, amended: a press that does not end with a mind map leaves the file as it
\* was; it leaves the mind-map structure as it was unless create_mind_map_visual
\* was called (and raised); it leaves the summary as it was if it stopped before
\* generate_summary returned, and otherwise the summary is what generate_summary
\* returned in this run.
C2_FailureLeavesFile ==
    [][(pressed' /\ ~Success') =>
            /\ html' = html
            /\ html_data' = html_data
            /\ ~CalledNow("create_mind_map_visual")' => mind_map_data' = mind_map_data
            /\ CalledNow("create_mind_map_visual")' =>
                   mind_map_data' = generate_mind_map(inp'.mapi).ret
            /\ ~CalledNow("generate_mind_map")' => summary' = summary
            /\ CalledNow("generate_mind_map")' => summary' = generate_summary(inp'.sapi)]_vars

\* the mind-map response did not parse: the file and the structure are the earlier
\* run's, the summary is this run's
C2_Witness ==
    /\ pressed /\ ~Success
    /\ inp.mapi.o = "ok" /\ inp.mapi.text = Str(<<"done">>)
    /\ summary = inp.sapi.text
    /\ mind_map_data = CatsMap
    /\ html.t = "file"

\* C9: a press that does not end with a mind map shows a warning or an error.
C9_FailureShowsBanner == (pressed /\ ~Success) => banners # <<>>

\* C10: whenever a mind-map structure is stored, it was generated from the stored
\* summary, and the file is the rendering of that structure.
C10_StateConsistent ==
    mind_map_data # None =>
        /\ mm_summary = summary
        /\ html_data = mind_map_data
        /\ html = File(create_mind_map_visual(mind_map_data))

====
